---- MODULE Spec2Model ----
(***************************************************************************)
(* Model of the AlagaApp backend (src/backend): the care-profile router,   *)
(* the child-record routers (medications, appointments, health records,    *)
(* calendar events, reminders, vital signs), the medication date-pattern   *)
(* matcher, the subscription router and the users router.                  *)
(*                                                                         *)
(* The document store and the identity provider are the external platform: *)
(* a document get/set/update/delete/query is one atomic step that does     *)
(* what its name says, and generated ids are never reused.  The handlers   *)
(* of the care-profile, child-record and subscription routers run for an   *)
(* already authenticated caller; the users router is modelled with the     *)
(* id-token dependency itself.  The handlers' own code is modelled         *)
(* statement by statement; a handler that awaits between reading the store *)
(* and writing it is split between that read and the write, because other  *)
(* requests can be served in between, and a run of synchronous calls is    *)
(* one step.                                                               *)
(***************************************************************************)
EXTENDS Integers, FiniteSets, Sequences, TLC

\* ---------------------------------------------------------------- bounds
MaxProfiles == 1
MaxDocs == 1
MaxDay == 3
MaxSchedules == 2
MaxSubs == 2
MaxRequests == 2
MaxStored == 1
MaxUpdaters == 1

\* ------------------------------------------------------------- constants
HTTP_200_OK == 200
HTTP_201_CREATED == 201
HTTP_204_NO_CONTENT == 204
HTTP_400_BAD_REQUEST == 400
HTTP_401_UNAUTHORIZED == 401
HTTP_403_FORBIDDEN == 403
HTTP_404_NOT_FOUND == 404
HTTP_500_INTERNAL_SERVER_ERROR == 500

Users == {"u1", "u2"}
NoUser == "none"
ProfileIds == 1..MaxProfiles
NoProfile == 0
DocIds == 1..MaxDocs
Days == 0..MaxDay
DocDays == {0, 1}
Names == {"Ana", "Ben", "Cy", "Di"}
NoName == "none"

VARIABLES
    care_profiles,    \* collection 'care_profiles': profile id -> document
    creator,          \* history: the caller whose request created each profile
    nextProfileId,    \* next document id the store generates for a profile
    docs,             \* the child collections: set of stored child documents
    nextDocId,        \* next document id generated for a child document
    pending,          \* a child request between its ownership check and its store call
    today,            \* the server's current date (day number)
    router,           \* the router whose endpoints this behaviour exercises
    subscriptions,    \* collection 'subscriptions': set of stored documents
    nextSubId,        \* next document id generated for a subscription
    subReqs,          \* subscription requests in flight, by worker slot
    accounts,         \* the identity provider's accounts: set of [uid, email]
    usedUids,         \* uids the identity provider has issued (never reused)
    users,            \* collection 'users': set of [doc_id, data]
    id_token,         \* the id-token header of the request answered by the last step
    resp              \* the response of the request completed by the last step

vars == <<care_profiles, creator, nextProfileId, docs, nextDocId, pending, today, router,
          subscriptions, nextSubId, subReqs, accounts, usedUids, users, id_token, resp>>

subVars == <<subscriptions, nextSubId, subReqs>>
appVars == <<care_profiles, creator, nextProfileId, docs, nextDocId, pending, today, router>>
userVars == <<accounts, usedUids, users, id_token>>

\* ------------------------------------------------------------ documents
NoDoc == [exists |-> FALSE, user_id |-> NoUser, full_name |-> NoName]
Raised == "AttributeError"
NoResp == [op |-> "none", caller |-> NoUser, p |-> NoProfile, status |-> 0, body |-> {},
           items |-> <<>>, sent_user_id |-> NoUser]

\* A completed request: handler, caller, the care profile named, the status
\* code, the ids of the documents in the body and, for get_today_medications,
\* the returned medications with their schedules.  sent_user_id is the
\* user_id the request body carried to a care-profile endpoint.
Response(op, caller, p, st, body) ==
    [op |-> op, caller |-> caller, p |-> p, status |-> st, body |-> body,
     items |-> <<>>, sent_user_id |-> NoUser]

\* --------------------------------------------------- care_profiles router
\* get_care_profile_by_id_authorized: None (not found), 403, or the profile.
\* (variant without the owner comparison of lines 40-45)
get_care_profile_by_id_authorized_NoOwnerCheck(profile_id, current_user) ==
    IF ~care_profiles[profile_id].exists THEN HTTP_404_NOT_FOUND ELSE HTTP_200_OK

get_care_profile_by_id_authorized(profile_id, current_user) ==
    IF ~care_profiles[profile_id].exists THEN HTTP_404_NOT_FOUND
    ELSE IF care_profiles[profile_id].user_id # current_user THEN HTTP_403_FORBIDDEN
    ELSE HTTP_200_OK

\* (variant that keeps the body's user_id)
CreatedProfileBug(body, current_user) ==
    [exists |-> TRUE, user_id |-> body.user_id, full_name |-> body.full_name]

\* The document create_care_profile stores: the body's user_id is overwritten.
CreatedProfile(body, current_user) ==
    [exists |-> TRUE, user_id |-> current_user, full_name |-> body.full_name]

create_care_profile(current_user, body) ==
    /\ nextProfileId <= MaxProfiles
    /\ care_profiles' = [care_profiles EXCEPT ![nextProfileId] = CreatedProfile(body, current_user)]
    /\ creator' = [creator EXCEPT ![nextProfileId] = current_user]
    /\ nextProfileId' = nextProfileId + 1
    /\ resp' = [Response("create_care_profile", current_user, nextProfileId,
                          HTTP_201_CREATED, {nextProfileId})
                 EXCEPT !.sent_user_id = body.user_id]
    /\ UNCHANGED <<docs, nextDocId, pending, today, router, subVars, userVars>>

get_care_profile_by_id(current_user, profile_id) ==
    /\ LET st == get_care_profile_by_id_authorized(profile_id, current_user)
       IN resp' = Response("get_care_profile_by_id", current_user, profile_id, st,
                           IF st = HTTP_200_OK THEN {profile_id} ELSE {})
    /\ UNCHANGED <<care_profiles, creator, nextProfileId, docs, nextDocId, pending, today, router, subVars, userVars>>

\* where('user_id', '==', current_user.id): the caller's own profiles (the
\* default limit of the query is above the number of profiles modelled).
list_care_profiles_for_user(current_user) ==
    /\ resp' = Response("list_care_profiles_for_user", current_user, NoProfile, HTTP_200_OK,
                        {p \in ProfileIds : /\ care_profiles[p].exists
                                            /\ care_profiles[p].user_id = current_user})
    /\ UNCHANGED <<care_profiles, creator, nextProfileId, docs, nextDocId, pending, today, router, subVars, userVars>>

\* (variant that lets a user_id of the request body through)
CareProfileUpdateBug(body) ==
    [has_full_name |-> body.has_full_name, full_name |-> body.full_name,
     has_user_id |-> body.has_user_id, user_id |-> body.user_id]

\* CareProfileUpdate has no user_id field: model_dump(exclude_unset=True) of the
\* parsed body yields only the declared fields that the request set.

CareProfileUpdate(body) ==
    [has_full_name |-> body.has_full_name, full_name |-> body.full_name,
     has_user_id |-> FALSE, user_id |-> NoUser]

\* doc_ref.update(update_data): only the fields in update_data are replaced.
UpdatedProfile(doc, update_data) ==
    [exists |-> TRUE,
     user_id |-> IF update_data.has_user_id THEN update_data.user_id ELSE doc.user_id,
     full_name |-> IF update_data.has_full_name THEN update_data.full_name ELSE doc.full_name]

update_care_profile(current_user, profile_id, body) ==
    /\ LET st == get_care_profile_by_id_authorized(profile_id, current_user)
           update_data == CareProfileUpdate(body)
       IN IF st # HTTP_200_OK
          THEN /\ resp' = Response("update_care_profile", current_user, profile_id, st, {})
               /\ UNCHANGED care_profiles
          ELSE IF ~update_data.has_full_name /\ ~update_data.has_user_id
          THEN /\ resp' = Response("update_care_profile", current_user, profile_id, HTTP_400_BAD_REQUEST, {})
               /\ UNCHANGED care_profiles
          ELSE /\ care_profiles' = [care_profiles EXCEPT ![profile_id] = UpdatedProfile(@, update_data)]
               /\ resp' = [Response("update_care_profile", current_user, profile_id,
                                     HTTP_200_OK, {profile_id})
                            EXCEPT !.sent_user_id = IF body.has_user_id THEN body.user_id ELSE NoUser]
    /\ UNCHANGED <<creator, nextProfileId, docs, nextDocId, pending, today, router, subVars, userVars>>

\* (variant that also deletes the profile's child documents)
delete_care_profile_cascade(current_user, profile_id) ==
    /\ LET st == get_care_profile_by_id_authorized(profile_id, current_user)
       IN IF st # HTTP_200_OK
          THEN /\ resp' = Response("delete_care_profile", current_user, profile_id, st, {})
               /\ UNCHANGED <<care_profiles, docs>>
          ELSE /\ care_profiles' = [care_profiles EXCEPT ![profile_id] = NoDoc]
               /\ docs' = {d \in docs : d.care_profile_id # profile_id}
               /\ resp' = Response("delete_care_profile", current_user, profile_id, HTTP_204_NO_CONTENT, {})
    /\ UNCHANGED <<creator, nextProfileId, nextDocId, pending, today, router, subVars, userVars>>

delete_care_profile(current_user, profile_id) ==
    /\ LET st == get_care_profile_by_id_authorized(profile_id, current_user)
       IN IF st # HTTP_200_OK
          THEN /\ resp' = Response("delete_care_profile", current_user, profile_id, st, {})
               /\ UNCHANGED care_profiles
          ELSE /\ care_profiles' = [care_profiles EXCEPT ![profile_id] = NoDoc]
               /\ resp' = Response("delete_care_profile", current_user, profile_id, HTTP_204_NO_CONTENT, {})
    /\ UNCHANGED <<creator, nextProfileId, docs, nextDocId, pending, today, router, subVars, userVars>>

\* ------------------------------------------------------- medication model
\* FrequencyType = Literal["DAILY", "SPECIFIC_DAYS", "INTERVAL", "AS_NEEDED"]
FrequencyType == {"DAILY", "SPECIFIC_DAYS", "INTERVAL", "AS_NEEDED"}
DayNames == <<"Monday", "Tuesday", "Wednesday", "Thursday", "Friday", "Saturday", "Sunday">>

\* MedicationSchedule; days_of_week None or [] is the empty set, interval_days
\* None is has_interval = FALSE.
Schedule(t, ft, dow, hasInt, n) ==
    [time |-> t, frequency_type |-> ft, days_of_week |-> dow,
     has_interval |-> hasInt, interval_days |-> n]

\* The medication fields of MedicationBase that the handlers read.
Med(active, start, hasEnd, end, scheds, hasInv, inv) ==
    [is_active |-> active, start_date |-> start, has_end |-> hasEnd, end_date |-> end,
     schedules |-> scheds, has_inventory |-> hasInv, inventory_count |-> inv]

NoMed == Med(FALSE, 0, FALSE, 0, <<>>, FALSE, 0)

\* ------------------------------------------------------ child collections
Collections == {"medications", "appointments", "health_records", "calendar_events",
                "reminders", "vital_signs", "medication_logs"}

\* A stored child document.  day is the document's date field (appointment_time,
\* date, timestamp); ref is a medication log's medication_id.
ChildDoc(id, coll, body, user_id) ==
    [id |-> id, coll |-> coll, care_profile_id |-> body.care_profile_id,
     user_id |-> user_id, day |-> body.day, ref |-> body.ref, med |-> body.med]

\* ---------------------------------------------------- medications router
\* (variant without the owner comparison of lines 44-49)
authorize_care_profile_access_NoOwnerCheck(care_profile_id, current_user) ==
    IF ~care_profiles[care_profile_id].exists THEN HTTP_404_NOT_FOUND
    ELSE HTTP_200_OK

\* authorize_care_profile_access: 404, 403 or True (200).

authorize_care_profile_access(care_profile_id, current_user) ==
    IF ~care_profiles[care_profile_id].exists THEN HTTP_404_NOT_FOUND
    ELSE IF care_profiles[care_profile_id].user_id # current_user THEN HTTP_403_FORBIDDEN
    ELSE HTTP_200_OK

\* A request body of a child endpoint (the fields the handlers read).
Body(cp, uid, day, ref, med, ok) ==
    [care_profile_id |-> cp, user_id |-> uid, day |-> day, ref |-> ref, med |-> med, ok |-> ok]

NoBody == Body(NoProfile, NoUser, 0, 0, NoMed, FALSE)
NoReq == [active |-> FALSE, op |-> "none", caller |-> NoUser, body |-> NoBody]

\* The part of each create handler that runs before its write: 0 when the
\* handler goes on to write, else the status of the HTTPException raised.
Proceed == 0
\* (variant in which a create handler skips the authorization call)
AuthStatusSkipped(care_profile_id, current_user) == Proceed

AuthStatus(care_profile_id, current_user) ==
    IF authorize_care_profile_access(care_profile_id, current_user) = HTTP_200_OK
    THEN Proceed ELSE authorize_care_profile_access(care_profile_id, current_user)

create_medication_pre(body, current_user) ==
    IF body.care_profile_id # NoProfile THEN AuthStatus(body.care_profile_id, current_user)
    ELSE Proceed

create_appointment_pre(body, current_user) ==
    IF body.care_profile_id # NoProfile THEN AuthStatus(body.care_profile_id, current_user)
    ELSE IF body.user_id # current_user THEN HTTP_400_BAD_REQUEST
    ELSE Proceed

create_health_record_pre(body, current_user) ==
    IF body.care_profile_id # NoProfile THEN AuthStatus(body.care_profile_id, current_user)
    ELSE IF body.user_id # current_user THEN HTTP_400_BAD_REQUEST
    ELSE Proceed

create_calendar_event_pre(body, current_user) ==
    IF body.care_profile_id # NoProfile THEN AuthStatus(body.care_profile_id, current_user)
    ELSE HTTP_400_BAD_REQUEST

create_reminder_pre(body, current_user) ==
    IF body.care_profile_id # NoProfile THEN AuthStatus(body.care_profile_id, current_user)
    ELSE IF body.user_id # current_user THEN HTTP_400_BAD_REQUEST
    ELSE Proceed

\* body.ok: the record_type of the body is one of the vital sign types.
create_vital_sign_pre(body, current_user) ==
    LET st == IF body.care_profile_id # NoProfile
              THEN AuthStatus(body.care_profile_id, current_user)
              ELSE IF body.user_id # current_user THEN HTTP_400_BAD_REQUEST
              ELSE Proceed
    IN IF st # Proceed THEN st
       ELSE IF ~body.ok THEN HTTP_400_BAD_REQUEST
       ELSE Proceed

log_medication_taken_pre(body, current_user) ==
    AuthStatus(body.care_profile_id, current_user)

CreateOps == {"create_medication", "create_appointment", "create_health_record",
              "create_calendar_event", "create_reminder", "create_vital_sign",
              "log_medication_taken"}

PreStatus(op, body, current_user) ==
    CASE op = "create_medication" -> create_medication_pre(body, current_user)
      [] op = "create_appointment" -> create_appointment_pre(body, current_user)
      [] op = "create_health_record" -> create_health_record_pre(body, current_user)
      [] op = "create_calendar_event" -> create_calendar_event_pre(body, current_user)
      [] op = "create_reminder" -> create_reminder_pre(body, current_user)
      [] op = "create_vital_sign" -> create_vital_sign_pre(body, current_user)
      [] op = "log_medication_taken" -> log_medication_taken_pre(body, current_user)

\* The collection each create handler writes.
CollectionOf(op) ==
    CASE op = "create_medication" -> "medications"
      [] op = "create_appointment" -> "appointments"
      [] op = "create_health_record" -> "health_records"
      [] op = "create_calendar_event" -> "calendar_events"
      [] op = "create_reminder" -> "reminders"
      [] op = "create_vital_sign" -> "vital_signs"
      [] op = "log_medication_taken" -> "medication_logs"

\* The user_id each create handler stores: medications, appointments and
\* medication logs spread the body over the dict, the others assign
\* current_user.id after model_dump.
StoredUserId(op, body, current_user) ==
    IF op \in {"create_medication", "create_appointment"} THEN body.user_id
    ELSE current_user

\* The router module each handler belongs to.  The child routers share no
\* state but care_profiles, which they only read.
Routers == {"medications", "appointments", "health_records", "calendar", "reminders", "vitals"}
RouterOf(op) ==
    CASE op \in {"create_medication", "log_medication_taken", "get_care_profile_medications",
                 "get_today_medications", "get_care_profile_medication_logs"} -> "medications"
      [] op \in {"create_appointment", "get_care_profile_appointments",
                 "get_today_appointments", "get_upcoming_appointments"} -> "appointments"
      [] op \in {"create_health_record", "get_care_profile_health_records"} -> "health_records"
      [] op \in {"create_calendar_event", "get_events_by_date_range"} -> "calendar"
      [] op \in {"create_reminder", "get_care_profile_reminders"} -> "reminders"
      [] op \in {"create_vital_sign"} -> "vitals"

\* First step of a create request: everything up to the write.  An
\* HTTPException ends the request; otherwise the request goes on to its write.
CreateCheck(op, current_user, body) ==
    /\ router = RouterOf(op)
    /\ ~pending.active
    /\ nextDocId <= MaxDocs
    /\ LET st == PreStatus(op, body, current_user)
       IN IF st # Proceed
          THEN /\ resp' = Response(op, current_user, body.care_profile_id, st, {})
               /\ pending' = pending
          ELSE /\ pending' = [active |-> TRUE, op |-> op, caller |-> current_user, body |-> body]
               /\ resp' = NoResp
    /\ UNCHANGED <<care_profiles, creator, nextProfileId, docs, nextDocId, today, router, subVars, userVars>>

\* (variant that decrements whenever a count is set, without `> 0`)
DecrementInventoryUnguarded(d, medication_id) ==
    IF /\ d.coll = "medications"
       /\ d.id = medication_id
       /\ d.med.has_inventory
    THEN [d EXCEPT !.med.inventory_count = @ - 1]
    ELSE d

\* log_medication_taken's inventory management on the medication documents.
DecrementInventory(d, medication_id) ==
    IF /\ d.coll = "medications"
       /\ d.id = medication_id
       /\ d.med.has_inventory
       /\ d.med.inventory_count > 0
    THEN [d EXCEPT !.med.inventory_count = @ - 1]
    ELSE d

\* The status a create request answers after its write.  create_vital_sign
\* reads the new document back through get_vital_by_id_authorized, which
\* authorizes again; the other handlers read the document back directly.
CreatedStatus(op, body, current_user) ==
    IF /\ op = "create_vital_sign"
       /\ body.care_profile_id # NoProfile
       /\ authorize_care_profile_access(body.care_profile_id, current_user) # HTTP_200_OK
    THEN authorize_care_profile_access(body.care_profile_id, current_user)
    ELSE HTTP_201_CREATED

\* Second step of a create request: document(id).set(firestore_data).
CreateWrite ==
    /\ pending.active
    /\ LET op == pending.op
           new == ChildDoc(nextDocId, CollectionOf(op), pending.body,
                           StoredUserId(op, pending.body, pending.caller))
           kept == IF op = "log_medication_taken"
                   THEN {DecrementInventory(d, pending.body.ref) : d \in docs}
                   ELSE docs
       IN /\ docs' = kept \cup {new}
          /\ resp' = Response(op, pending.caller, pending.body.care_profile_id,
                              CreatedStatus(op, pending.body, pending.caller),
                              IF CreatedStatus(op, pending.body, pending.caller) = HTTP_201_CREATED
                              THEN {nextDocId} ELSE {})
    /\ nextDocId' = nextDocId + 1
    /\ pending' = NoReq
    /\ UNCHANGED <<care_profiles, creator, nextProfileId, today, router, subVars, userVars>>

create_medication(current_user, body) == CreateCheck("create_medication", current_user, body)
create_appointment(current_user, body) == CreateCheck("create_appointment", current_user, body)
create_health_record(current_user, body) == CreateCheck("create_health_record", current_user, body)
create_calendar_event(current_user, body) == CreateCheck("create_calendar_event", current_user, body)
create_reminder(current_user, body) == CreateCheck("create_reminder", current_user, body)
create_vital_sign(current_user, body) == CreateCheck("create_vital_sign", current_user, body)
log_medication_taken(current_user, body) == CreateCheck("log_medication_taken", current_user, body)

\* ------------------------------------------------------- list endpoints
\* where("care_profile_id", "==", care_profile_id) on one collection.
ProfileDocs(coll, care_profile_id) ==
    {d \in docs : d.coll = coll /\ d.care_profile_id = care_profile_id}

Ids(ds) == {d.id : d \in ds}

\* A list handler: the ownership check, then the query.  found is the result
\* of the handler's query, evaluated only when the authorization passed.
ListResponseNoCheck(op, current_user, care_profile_id, found) ==
    Response(op, current_user, care_profile_id, HTTP_200_OK, Ids(found))

ListResponse(op, current_user, care_profile_id, found) ==
    LET st == authorize_care_profile_access(care_profile_id, current_user)
    IN IF st # HTTP_200_OK
       THEN Response(op, current_user, care_profile_id, st, {})
       ELSE Response(op, current_user, care_profile_id, HTTP_200_OK, Ids(found))

ReadOnly == UNCHANGED <<care_profiles, creator, nextProfileId, docs, nextDocId, pending, today, router, subVars, userVars>>

\* active_only: "none" (parameter absent), "true" or "false".
get_care_profile_medications(current_user, care_profile_id, active_only) ==
    /\ router = RouterOf("get_care_profile_medications")
    /\ resp' = ListResponse("get_care_profile_medications", current_user, care_profile_id,
                   {d \in ProfileDocs("medications", care_profile_id) :
                        \/ active_only = "none"
                        \/ d.med.is_active = (active_only = "true")})
    /\ ReadOnly

\* start_date / end_date: an absent bound is the first / last day.
get_care_profile_medication_logs(current_user, care_profile_id, start_date, end_date) ==
    /\ router = RouterOf("get_care_profile_medication_logs")
    /\ resp' = ListResponse("get_care_profile_medication_logs", current_user, care_profile_id,
                   {d \in ProfileDocs("medication_logs", care_profile_id) :
                        start_date <= d.day /\ d.day <= end_date})
    /\ ReadOnly

get_care_profile_appointments(current_user, care_profile_id, start_datetime, end_datetime) ==
    /\ router = RouterOf("get_care_profile_appointments")
    /\ resp' = ListResponse("get_care_profile_appointments", current_user, care_profile_id,
                   {d \in ProfileDocs("appointments", care_profile_id) :
                        start_datetime <= d.day /\ d.day <= end_datetime})
    /\ ReadOnly

get_today_appointments(current_user, care_profile_id) ==
    /\ router = RouterOf("get_today_appointments")
    /\ resp' = ListResponse("get_today_appointments", current_user, care_profile_id,
                   {d \in ProfileDocs("appointments", care_profile_id) : d.day = today})
    /\ ReadOnly

get_upcoming_appointments(current_user, care_profile_id) ==
    /\ router = RouterOf("get_upcoming_appointments")
    /\ resp' = ListResponse("get_upcoming_appointments", current_user, care_profile_id,
                   {d \in ProfileDocs("appointments", care_profile_id) : d.day >= today})
    /\ ReadOnly

get_care_profile_health_records(current_user, care_profile_id) ==
    /\ router = RouterOf("get_care_profile_health_records")
    /\ resp' = ListResponse("get_care_profile_health_records", current_user, care_profile_id,
                   ProfileDocs("health_records", care_profile_id))
    /\ ReadOnly

get_care_profile_reminders(current_user, care_profile_id) ==
    /\ router = RouterOf("get_care_profile_reminders")
    /\ resp' = ListResponse("get_care_profile_reminders", current_user, care_profile_id,
                   ProfileDocs("reminders", care_profile_id))
    /\ ReadOnly

get_events_by_date_range(current_user, care_profile_id, start_date, end_date) ==
    /\ router = RouterOf("get_events_by_date_range")
    /\ resp' = ListResponse("get_events_by_date_range", current_user, care_profile_id,
                   {d \in ProfileDocs("calendar_events", care_profile_id) :
                        start_date <= d.day /\ d.day <= end_date})
    /\ ReadOnly

\* ------------------------------------------------- get_today_medications
\* today_date.strftime("%A"); day number 0 is a Monday.
today_day_str(today_date) == DayNames[(today_date % 7) + 1]

\* Attribute access on FrequencyType.  FrequencyType is a typing.Literal alias,
\* not an Enum: it has no member attributes, so FrequencyType.DAILY,
\* FrequencyType.SPECIFIC_DAYS and FrequencyType.INTERVAL raise AttributeError.
FrequencyTypeAttr(name) == Raised

\* One iteration of the loop over med_obj.schedules: "append", "skip", or
\* Raised when evaluating a branch condition raises.
relevant_schedule(schedule_model, med_obj, today_date) ==
    IF FrequencyTypeAttr("DAILY") = Raised THEN Raised
    ELSE IF schedule_model.frequency_type = FrequencyTypeAttr("DAILY") THEN "append"
    ELSE IF FrequencyTypeAttr("SPECIFIC_DAYS") = Raised THEN Raised
    ELSE IF schedule_model.frequency_type = FrequencyTypeAttr("SPECIFIC_DAYS")
    THEN IF /\ schedule_model.days_of_week # {}
            /\ today_day_str(today_date) \in schedule_model.days_of_week
         THEN "append" ELSE "skip"
    ELSE IF FrequencyTypeAttr("INTERVAL") = Raised THEN Raised
    ELSE IF schedule_model.frequency_type = FrequencyTypeAttr("INTERVAL")
    THEN IF schedule_model.has_interval
         THEN LET delta_days == today_date - med_obj.start_date
              IN IF /\ delta_days >= 0
                    /\ schedule_model.interval_days > 0
                    /\ delta_days % schedule_model.interval_days = 0
                 THEN "append" ELSE "skip"
         ELSE "skip"
    ELSE "skip"

RECURSIVE SelectAppended(_, _, _)
SelectAppended(schedules, med_obj, today_date) ==
    IF schedules = <<>> THEN <<>>
    ELSE LET rest == SelectAppended(Tail(schedules), med_obj, today_date)
         IN IF relevant_schedule(Head(schedules), med_obj, today_date) = "append"
            THEN <<Head(schedules)>> \o rest ELSE rest

\* relevant_schedules_for_today of one medication, or Raised.
relevant_schedules_for_today(med_obj, today_date) ==
    IF \E i \in 1..Len(med_obj.schedules) :
           relevant_schedule(med_obj.schedules[i], med_obj, today_date) = Raised
    THEN [raised |-> TRUE, schedules |-> <<>>]
    ELSE [raised |-> FALSE, schedules |-> SelectAppended(med_obj.schedules, med_obj, today_date)]

\* The documents of the query that pass the start_date / end_date filter.
InDateRange(d, today_date) ==
    /\ ~(d.med.start_date > today_date)
    /\ ~(d.med.has_end /\ d.med.end_date < today_date)

ActiveMedications(care_profile_id) ==
    {d \in ProfileDocs("medications", care_profile_id) : d.med.is_active}

\* min(s.time for s in m.schedules)
MinTime(schedules) ==
    CHOOSE t \in {schedules[i].time : i \in 1..Len(schedules)} :
        \A i \in 1..Len(schedules) : t <= schedules[i].time

\* list.sort(key=...): stable insertion of the items, taken in stream order.
RECURSIVE InsertByTime(_, _)
InsertByTime(item, sorted) ==
    IF sorted = <<>> THEN <<item>>
    ELSE IF MinTime(item.schedules) < MinTime(Head(sorted).schedules)
         THEN <<item>> \o sorted
         ELSE <<Head(sorted)>> \o InsertByTime(item, Tail(sorted))

RECURSIVE TodayItems(_, _)
TodayItems(ds, today_date) ==
    IF ds = {} THEN <<>>
    ELSE LET d == CHOOSE x \in ds : \A y \in ds : x.id >= y.id
             before == TodayItems(ds \ {d}, today_date)
             rel == relevant_schedules_for_today(d.med, today_date)
         IN IF InDateRange(d, today_date) /\ rel.schedules # <<>>
            THEN InsertByTime([id |-> d.id, schedules |-> rel.schedules], before)
            ELSE before

\* The body of get_today_medications after the ownership check: an exception
\* raised in the loop is caught by `except Exception` and answered with 500.
TodayResponse(current_user, care_profile_id) ==
    LET meds == ActiveMedications(care_profile_id)
        items == TodayItems(meds, today)
    IN IF \E d \in meds : /\ InDateRange(d, today)
                          /\ relevant_schedules_for_today(d.med, today).raised
       THEN Response("get_today_medications", current_user, care_profile_id,
                     HTTP_500_INTERNAL_SERVER_ERROR, {})
       ELSE [Response("get_today_medications", current_user, care_profile_id, HTTP_200_OK,
                      {items[i].id : i \in 1..Len(items)}) EXCEPT !.items = items]

get_today_medications(current_user, care_profile_id) ==
    /\ router = RouterOf("get_today_medications")
    /\ LET st == authorize_care_profile_access(care_profile_id, current_user)
       IN IF st # HTTP_200_OK
          THEN resp' = Response("get_today_medications", current_user, care_profile_id, st, {})
          ELSE resp' = TodayResponse(current_user, care_profile_id)
    /\ ReadOnly

\* The server clock passes midnight.
Tick ==
    /\ today < MaxDay
    /\ today' = today + 1
    /\ resp' = NoResp
    /\ UNCHANGED <<care_profiles, creator, nextProfileId, docs, nextDocId, pending, router, subVars, userVars>>

\* --------------------------------------------------- subscriptions router
SubscriptionTier == {"free", "premium"}

\* get_default_features(tier)
get_default_features(tier) ==
    IF tier = "free"
    THEN [max_care_profiles |-> 1, max_tasks_per_day |-> 2, max_pill_reminders_per_day |-> 1,
          can_record_multiple_vitals |-> FALSE, has_enhanced_calendar |-> FALSE,
          has_smart_reminders |-> FALSE]
    ELSE [max_care_profiles |-> 5, max_tasks_per_day |-> 999, max_pill_reminders_per_day |-> 999,
          can_record_multiple_vitals |-> TRUE, has_enhanced_calendar |-> TRUE,
          has_smart_reminders |-> TRUE]

\* SubscriptionCreate: user_id, tier (default free), features (default None).
SubscriptionCreate(user_id, tier, has_features, features) ==
    [user_id |-> user_id, tier |-> tier, has_features |-> has_features, features |-> features]

NoSubscriptionCreate == SubscriptionCreate(NoUser, "free", FALSE, get_default_features("free"))

\* A stored subscription as SubscriptionInDB reads it (fields that were not
\* stored take the model's defaults).
SubscriptionInDB(id, data) ==
    [id |-> id, user_id |-> data.user_id, tier |-> data.tier, features |-> data.features,
     is_active |-> TRUE, auto_renew |-> FALSE, has_end_date |-> FALSE, end_date |-> 0]

NoSubscription == SubscriptionInDB(0, NoSubscriptionCreate)

Slots == 1..MaxRequests
\* SubscriptionUpdate and the update_data dict built from it: every field is
\* optional, has_<field> says that the field is set.
SubscriptionUpdate(has_tier, tier, has_features, features, has_is_active, is_active, has_auto_renew, auto_renew) ==
    [has_tier |-> has_tier, tier |-> tier, has_features |-> has_features, features |-> features,
     has_is_active |-> has_is_active, is_active |-> is_active,
     has_auto_renew |-> has_auto_renew, auto_renew |-> auto_renew,
     has_end_date |-> FALSE, end_date |-> 0]

NoSubscriptionUpdate ==
    SubscriptionUpdate(FALSE, "free", FALSE, get_default_features("free"), FALSE, FALSE, FALSE, FALSE)

IdleReq == [pc |-> "idle", op |-> "none", caller |-> NoUser, data |-> NoSubscriptionCreate,
            written |-> 0, target |-> 0, update_data |-> NoSubscriptionUpdate]

SubscriptionsOf(user_id) == {sub \in subscriptions : sub.user_id = user_id}

\* get_subscription_by_user_id_authorized: the outcomes the call can have.
\* where(user_id ==).limit(1) yields at most one of the user's documents; the
\* query has no order_by, so the store orders by its generated (random)
\* document ids and any of the user's documents can be the one returned.
get_subscription_by_user_id_authorized(user_id, current_user) ==
    IF user_id # current_user
    THEN {[status |-> HTTP_403_FORBIDDEN, found |-> FALSE, doc |-> NoSubscription]}
    ELSE IF SubscriptionsOf(user_id) = {}
    THEN {[status |-> HTTP_200_OK, found |-> FALSE, doc |-> NoSubscription]}
    ELSE {[status |-> HTTP_200_OK, found |-> TRUE, doc |-> sub] : sub \in SubscriptionsOf(user_id)}

SubResponse(op, caller, st, found) ==
    [Response(op, caller, NoProfile, st, {sub.id : sub \in found})
     EXCEPT !.items = IF found = {} THEN <<>> ELSE <<CHOOSE sub \in found : TRUE>>]

\* subscription.features defaulted by tier when the body has none.
SubscriptionData(subscription) ==
    IF ~subscription.has_features
    THEN [subscription EXCEPT !.has_features = TRUE,
                              !.features = get_default_features(subscription.tier)]
    ELSE subscription

\* create_subscription up to its store call: the 403 check, the query for an
\* existing subscription and the 400 answer.
create_subscription(w, current_user, subscription) ==
    /\ subReqs[w].pc = "idle"
    /\ \A v \in Slots : v < w => subReqs[v].pc # "idle"
    /\ IF subscription.user_id # current_user
       THEN /\ resp' = SubResponse("create_subscription", current_user, HTTP_403_FORBIDDEN, {})
            /\ UNCHANGED subReqs
       ELSE \E existing_subscription \in
                   get_subscription_by_user_id_authorized(current_user, current_user) :
               IF existing_subscription.found
               THEN /\ resp' = SubResponse("create_subscription", current_user,
                                           HTTP_400_BAD_REQUEST, {})
                    /\ UNCHANGED subReqs
               ELSE /\ nextSubId <= MaxSubs
                    /\ subReqs' = [subReqs EXCEPT ![w] =
                                      [IdleReq EXCEPT !.pc = "write",
                                                      !.op = "create_subscription",
                                                      !.caller = current_user,
                                                      !.data = SubscriptionData(subscription)]]
                    /\ resp' = NoResp
    /\ UNCHANGED <<subscriptions, nextSubId, appVars, userVars>>

\* get_my_subscription up to its store call: the caller's subscription is
\* returned when the query finds one, else a free one is prepared.
get_my_subscription(w, current_user) ==
    /\ subReqs[w].pc = "idle"
    /\ \A v \in Slots : v < w => subReqs[v].pc # "idle"
    /\ \E subscription \in get_subscription_by_user_id_authorized(current_user, current_user) :
          IF subscription.found
          THEN /\ resp' = SubResponse("get_my_subscription", current_user, HTTP_200_OK,
                                      {subscription.doc})
               /\ UNCHANGED subReqs
          ELSE /\ nextSubId <= MaxSubs
               /\ subReqs' = [subReqs EXCEPT ![w] =
                                 [IdleReq EXCEPT !.pc = "write",
                                                 !.op = "get_my_subscription",
                                                 !.caller = current_user,
                                                 !.data = SubscriptionCreate(current_user, "free", TRUE,
                                                              get_default_features("free"))]]
               /\ resp' = NoResp
    /\ UNCHANGED <<subscriptions, nextSubId, appVars, userVars>>

\* subscription_ref = db.collection("subscriptions").document();
\* subscription_ref.set(firestore_data)
SubscriptionSet(w) ==
    /\ subReqs[w].pc = "write"
    /\ subscriptions' = subscriptions \cup {SubscriptionInDB(nextSubId, subReqs[w].data)}
    /\ nextSubId' = nextSubId + 1
    /\ subReqs' = [subReqs EXCEPT ![w].pc = "requery", ![w].written = nextSubId]
    /\ resp' = NoResp
    /\ UNCHANGED <<appVars, userVars>>

\* The query after the write and the response: 201 for create_subscription,
\* 200 for get_my_subscription, 500 when the query finds nothing.
SubscriptionRequery(w) ==
    /\ subReqs[w].pc = "requery"
    /\ \E created_subscription \in
              get_subscription_by_user_id_authorized(subReqs[w].caller, subReqs[w].caller) :
          resp' = IF ~created_subscription.found
                  THEN SubResponse(subReqs[w].op, subReqs[w].caller,
                                   HTTP_500_INTERNAL_SERVER_ERROR, {})
                  ELSE SubResponse(subReqs[w].op, subReqs[w].caller,
                                   IF subReqs[w].op = "create_subscription"
                                   THEN HTTP_201_CREATED ELSE HTTP_200_OK,
                                   {created_subscription.doc})
    /\ subReqs' = [subReqs EXCEPT ![w] = IdleReq]
    /\ UNCHANGED <<subscriptions, nextSubId, appVars, userVars>>

\* timedelta(days=30)
PremiumDays == 30

\* (variant that sets the premium features whatever the current tier is)
UpdateDataAlwaysFeatures(current_subscription, subscription_update, today_date) ==
    IF subscription_update.has_tier /\ subscription_update.tier = "premium"
    THEN [subscription_update EXCEPT
             !.has_end_date = TRUE, !.end_date = today_date + PremiumDays,
             !.has_is_active = TRUE, !.is_active = TRUE,
             !.has_features = TRUE,
             !.features = IF subscription_update.has_features THEN @
                          ELSE get_default_features("premium")]
    ELSE subscription_update

\* update_my_subscription: update_data after the premium branch.  A change to
\* premium sets end_date and is_active; the default premium features are set
\* only when the current tier is not premium and the body has no features.
UpdateData(current_subscription, subscription_update, today_date) ==
    IF subscription_update.has_tier /\ subscription_update.tier = "premium"
    THEN [subscription_update EXCEPT
             !.has_end_date = TRUE, !.end_date = today_date + PremiumDays,
             !.has_is_active = TRUE, !.is_active = TRUE,
             !.has_features = IF current_subscription.tier # "premium" THEN TRUE ELSE @,
             !.features = IF current_subscription.tier # "premium"
                             /\ ~subscription_update.has_features
                          THEN get_default_features("premium") ELSE @]
    ELSE subscription_update

\* `if not update_data`: the body set no field.
NoFieldSet(subscription_update) ==
    /\ ~subscription_update.has_tier
    /\ ~subscription_update.has_features
    /\ ~subscription_update.has_is_active
    /\ ~subscription_update.has_auto_renew

\* subscription_ref.update(update_data): only the fields of update_data change.
UpdatedSubscription(sub, update_data) ==
    [sub EXCEPT
        !.tier = IF update_data.has_tier THEN update_data.tier ELSE @,
        !.features = IF update_data.has_features THEN update_data.features ELSE @,
        !.is_active = IF update_data.has_is_active THEN update_data.is_active ELSE @,
        !.auto_renew = IF update_data.has_auto_renew THEN update_data.auto_renew ELSE @,
        !.has_end_date = IF update_data.has_end_date THEN TRUE ELSE @,
        !.end_date = IF update_data.has_end_date THEN update_data.end_date ELSE @]

\* update_my_subscription up to its store call, for the handler named op.
UpdateStart(op, w, current_user, subscription_update) ==
    /\ subReqs[w].pc = "idle"
    /\ \A v \in Slots : v < w => subReqs[v].pc # "idle"
    /\ \E current_subscription \in
              get_subscription_by_user_id_authorized(current_user, current_user) :
          IF ~current_subscription.found
          THEN /\ resp' = SubResponse(op, current_user, HTTP_404_NOT_FOUND, {})
               /\ UNCHANGED subReqs
          ELSE IF NoFieldSet(subscription_update)
          THEN /\ resp' = SubResponse(op, current_user, HTTP_200_OK, {current_subscription.doc})
               /\ UNCHANGED subReqs
          ELSE /\ subReqs' = [subReqs EXCEPT ![w] =
                                 [IdleReq EXCEPT
                                     !.pc = "update", !.op = op, !.caller = current_user,
                                     !.target = current_subscription.doc.id,
                                     !.update_data = UpdateData(current_subscription.doc,
                                                                subscription_update, today)]]
               /\ resp' = NoResp
    /\ UNCHANGED <<subscriptions, nextSubId, appVars, userVars>>

update_my_subscription(w, current_user, subscription_update) ==
    UpdateStart("update_my_subscription", w, current_user, subscription_update)

\* SubscriptionUpdate(tier=SubscriptionTier.PREMIUM, auto_renew=True)
PremiumUpgrade ==
    SubscriptionUpdate(TRUE, "premium", FALSE, get_default_features("free"), FALSE, FALSE, TRUE, TRUE)

upgrade_to_premium(w, current_user) ==
    UpdateStart("upgrade_to_premium", w, current_user, PremiumUpgrade)

\* db.collection("subscriptions").document(current_subscription.id).update(update_data)
SubscriptionUpdateWrite(w) ==
    /\ subReqs[w].pc = "update"
    /\ subscriptions' = {IF sub.id = subReqs[w].target
                         THEN UpdatedSubscription(sub, subReqs[w].update_data)
                         ELSE sub : sub \in subscriptions}
    /\ subReqs' = [subReqs EXCEPT ![w].pc = "requery"]
    /\ resp' = NoResp
    /\ UNCHANGED <<nextSubId, appVars, userVars>>

\* ----------------------------------------------------------- users router
\* Documents and request bodies of the users router are dicts: functions
\* from field names to values.
Restrict(d, keys) == [k \in (DOMAIN d) \cap keys |-> d[k]]

\* (variant of dict.pop that leaves the key in place)
PopKept(d, key) == d

\* dict.pop(key, None)
Pop(d, key) == Restrict(d, (DOMAIN d) \ {key})

\* user_model.py: the fields each model declares; pydantic drops other keys
\* of the request body.
UserBaseFields == {"email", "full_name", "phone_number", "address"}
UserCreateFields == UserBaseFields \cup {"password"}
UserUpdateFields == {"full_name", "phone_number", "address", "profile_picture_url", "is_caregiver"}
UserInDBFields ==
    UserBaseFields \cup {"id", "created_at", "updated_at", "profile_picture_url",
                         "is_caregiver", "is_verified"}

UserCreate(raw) == Restrict(raw, UserCreateFields)
UserUpdate(raw) == Restrict(raw, UserUpdateFields)
UserInDB(data) == Restrict(data, UserInDBFields)

\* db.collection('users').document(uid) and its get / set / update / delete.
UserDocExists(uid) == \E d \in users : d.doc_id = uid
UserDocGet(uid) == IF UserDocExists(uid) THEN CHOOSE d \in users : d.doc_id = uid ELSE [doc_id |-> NoUser, data |-> <<>>]
UserDocSet(uid, data) == {d \in users : d.doc_id # uid} \cup {[doc_id |-> uid, data |-> data]}
UserDocUpdate(uid, update_data) ==
    {IF d.doc_id = uid THEN [d EXCEPT !.data = update_data @@ d.data] ELSE d : d \in users}
UserDocDelete(uid) == {d \in users : d.doc_id # uid}

\* The id-token header of a request.  kind is what auth.verify_id_token does
\* with it: decodes it ("valid") or raises the error named.
NoToken == [kind |-> "missing", uid |-> NoUser]
TokenKinds == {"valid", "InvalidIdTokenError", "ExpiredIdTokenError", "RevokedIdTokenError"}
IdTokens == {NoToken} \cup [kind : TokenKinds, uid : Users]

\* The identity provider signs tokens only for uids it has issued; a token
\* outlives the account it was issued for.
Presentable(token) ==
    token.kind \in {"valid", "ExpiredIdTokenError", "RevokedIdTokenError"} => token.uid \in usedUids

\* The except clauses of get_authenticated_user, in order, applied to what
\* the try body raised.  There is no clause for HTTPException, so the
\* HTTPException the try body raises itself reaches `except Exception`.
get_authenticated_user_except(raised) ==
    IF raised \in {"InvalidIdTokenError", "ExpiredIdTokenError", "RevokedIdTokenError"}
    THEN HTTP_401_UNAUTHORIZED
    ELSE IF raised = "CertificateFetchError" THEN HTTP_500_INTERNAL_SERVER_ERROR
    ELSE IF raised = "NotFound" THEN HTTP_404_NOT_FOUND
    ELSE HTTP_500_INTERNAL_SERVER_ERROR

\* get_authenticated_user: the status it raises, or 200 and the user.
get_authenticated_user(token) ==
    IF token.kind = "missing"
    THEN [status |-> HTTP_401_UNAUTHORIZED, user |-> <<>>]
    ELSE IF token.kind # "valid"
    THEN [status |-> get_authenticated_user_except(token.kind), user |-> <<>>]
    ELSE IF ~UserDocExists(token.uid)
    THEN [status |-> get_authenticated_user_except("HTTPException"), user |-> <<>>]
    ELSE [status |-> HTTP_200_OK, user |-> UserInDB(UserDocGet(token.uid).data)]

\* The except clauses of register_user, in order.
register_user_except(raised) ==
    IF raised = "EmailAlreadyExistsError" THEN HTTP_400_BAD_REQUEST
    ELSE HTTP_500_INTERNAL_SERVER_ERROR

\* register_user's firestore_data: later keys of the dict display win.
UserFirestoreData(uid, user) ==
    LET user_data == Pop(user, "password")
    IN ("is_verified" :> "False") @@ ("is_caregiver" :> "False")
       @@ ("profile_picture_url" :> "None")
       @@ ("updated_at" :> "serverTimestamp") @@ ("created_at" :> "serverTimestamp")
       @@ user_data
       @@ ("phone_number" :> (IF "phone_number" \in DOMAIN user THEN user["phone_number"] ELSE "None"))
       @@ ("full_name" :> user["full_name"]) @@ ("email" :> user["email"])
       @@ ("id" :> uid)

\* POST /users/register.  All its platform calls are synchronous: one step.
register_user(raw) ==
    LET user == UserCreate(raw)
    IN /\ router = "users"
       /\ id_token' = NoToken
       /\ IF \E a \in accounts : a.email = user["email"]
          THEN \* get_user_by_email found one: HTTPException(400) raised in the try
               /\ resp' = Response("register_user", NoUser, NoProfile,
                                       register_user_except("HTTPException"), {})
               /\ UNCHANGED <<accounts, usedUids, users>>
          ELSE /\ \E uid \in Users \ usedUids :
                     /\ accounts' = accounts \cup {[uid |-> uid, email |-> user["email"]]}
                     /\ usedUids' = usedUids \cup {uid}
                     /\ users' = UserDocSet(uid, UserFirestoreData(uid, user))
                     /\ resp' = Response("register_user", NoUser, NoProfile, HTTP_201_CREATED, {uid})
       /\ UNCHANGED <<appVars, subVars>>

\* A request refused by the get_authenticated_user dependency.
Refused(op, token) ==
    /\ get_authenticated_user(token).status # HTTP_200_OK
    /\ resp' = Response(op, NoUser, NoProfile, get_authenticated_user(token).status, {})
    /\ UNCHANGED <<accounts, usedUids, users>>

\* GET /users/me
get_current_user(token) ==
    /\ router = "users"
    /\ Presentable(token)
    /\ id_token' = token
    /\ \/ Refused("get_current_user", token)
       \/ /\ get_authenticated_user(token).status = HTTP_200_OK
          /\ LET current_user == get_authenticated_user(token).user
             IN resp' = Response("get_current_user", current_user["id"], NoProfile, HTTP_200_OK,
                                     {current_user["id"]})
          /\ UNCHANGED <<accounts, usedUids, users>>
    /\ UNCHANGED <<appVars, subVars>>

\* PUT /users/me
update_user(token, raw) ==
    /\ router = "users"
    /\ Presentable(token)
    /\ id_token' = token
    /\ \/ Refused("update_user", token)
       \/ /\ get_authenticated_user(token).status = HTTP_200_OK
          /\ LET current_user == get_authenticated_user(token).user
                 update_data == ("updated_at" :> "serverTimestamp") @@ UserUpdate(raw)
             IN IF ~UserDocExists(current_user["id"])
                THEN /\ resp' = Response("update_user", current_user["id"], NoProfile,
                                             HTTP_500_INTERNAL_SERVER_ERROR, {})
                     /\ users' = users
                ELSE /\ users' = UserDocUpdate(current_user["id"], update_data)
                     /\ resp' = Response("update_user", current_user["id"], NoProfile, HTTP_200_OK,
                                             {current_user["id"]})
          /\ UNCHANGED <<accounts, usedUids>>
    /\ UNCHANGED <<appVars, subVars>>

\* DELETE /users/me
delete_user(token) ==
    /\ router = "users"
    /\ Presentable(token)
    /\ id_token' = token
    /\ \/ Refused("delete_user", token)
       \/ /\ get_authenticated_user(token).status = HTTP_200_OK
          /\ LET current_user == get_authenticated_user(token).user
             IN IF ~\E a \in accounts : a.uid = current_user["id"]
                THEN /\ resp' = Response("delete_user", current_user["id"], NoProfile,
                                             HTTP_404_NOT_FOUND, {})
                     /\ UNCHANGED <<accounts, users>>
                ELSE /\ accounts' = {a \in accounts : a.uid # current_user["id"]}
                     /\ users' = UserDocDelete(current_user["id"])
                     /\ resp' = Response("delete_user", current_user["id"], NoProfile,
                                             HTTP_204_NO_CONTENT, {})
          /\ UNCHANGED usedUids
    /\ UNCHANGED <<appVars, subVars>>

NoUsers ==
    /\ accounts = {}
    /\ usedUids = {}
    /\ users = {}
    /\ id_token = NoToken

\* ------------------------------------------------ record status endpoints
EventStatus == {"pending", "completed", "missed", "skipped", "taken"}
AppointmentStatus == {"scheduled", "completed", "cancelled", "rescheduled"}

\* A stored appointment or calendar event with its status and updated_at.
StatusDoc(id, coll, care_profile_id, user_id, st, updated_at) ==
    [id |-> id, coll |-> coll, care_profile_id |-> care_profile_id, user_id |-> user_id,
     day |-> 0, ref |-> 0, med |-> NoMed, status |-> st, updated_at |-> updated_at]

Found(coll, id) == {d \in docs : d.coll = coll /\ d.id = id}
NotFound == 0

\* get_calendar_event_by_id: None (NotFound), the HTTPException of the
\* authorization, or the event (200).  An event always has a care_profile_id.
get_calendar_event_by_id(event_id, current_user) ==
    IF Found("calendar_events", event_id) = {} THEN NotFound
    ELSE LET event_data == CHOOSE d \in Found("calendar_events", event_id) : TRUE
         IN authorize_care_profile_access(event_data.care_profile_id, current_user)

\* get_appointment_by_id: None (NotFound), 403/404, or the appointment (200).
get_appointment_by_id(appointment_id, current_user) ==
    IF Found("appointments", appointment_id) = {} THEN NotFound
    ELSE LET appointment_data == CHOOSE d \in Found("appointments", appointment_id) : TRUE
         IN IF appointment_data.care_profile_id # NoProfile
            THEN authorize_care_profile_access(appointment_data.care_profile_id, current_user)
            ELSE IF appointment_data.user_id = current_user THEN HTTP_200_OK
            ELSE HTTP_403_FORBIDDEN

MarkOps == {"mark_event_status", "mark_appointment_complete"}
MarkedCollection(op) ==
    IF op = "mark_event_status" THEN "calendar_events" ELSE "appointments"

\* (variant with a lifecycle: a completed record keeps its status)
StatusUpdateKeepingCompleted(d, st, now) ==
    [d EXCEPT !.status = IF @ = "completed" THEN @ ELSE st, !.updated_at = now]

\* document(id).update({"status": ..., "updated_at": serverTimestamp()})
StatusUpdate(d, st, now) ==
    [d EXCEPT !.status = st, !.updated_at = now]

\* First step of a status request: the helper's read and authorization.
\* In mark_event_status the parameter `status` hides fastapi's status module,
\* so building the 404 for a missing event raises AttributeError, once in
\* the try body and again in `except Exception`: the server answers 500.
MarkCheck(op, current_user, id, st) ==
    /\ ~pending.active
    /\ LET found == IF op = "mark_event_status"
                    THEN get_calendar_event_by_id(id, current_user)
                    ELSE get_appointment_by_id(id, current_user)
       IN IF found = NotFound
          THEN /\ resp' = Response(op, current_user, NoProfile,
                                   IF op = "mark_event_status"
                                   THEN HTTP_500_INTERNAL_SERVER_ERROR
                                   ELSE HTTP_404_NOT_FOUND, {})
               /\ pending' = pending
          ELSE IF found # HTTP_200_OK
          THEN /\ resp' = Response(op, current_user, NoProfile, found, {})
               /\ pending' = pending
          ELSE /\ pending' = [active |-> TRUE, op |-> op, caller |-> current_user,
                              body |-> Body(NoProfile, NoUser, 0, id, NoMed, TRUE),
                              status |-> st]
               /\ resp' = NoResp
    /\ UNCHANGED <<care_profiles, creator, nextProfileId, docs, nextDocId, today, router,
                   subVars, userVars>>

mark_event_status(current_user, event_id, st) ==
    /\ router = "calendar"
    /\ MarkCheck("mark_event_status", current_user, event_id, st)

mark_appointment_complete(current_user, appointment_id) ==
    /\ router = "appointments"
    /\ MarkCheck("mark_appointment_complete", current_user, appointment_id, "completed")

\* Second step: the update and the read of the updated document.
MarkWrite ==
    /\ pending.active
    /\ pending.op \in MarkOps
    /\ LET coll == MarkedCollection(pending.op)
           id == pending.body.ref
       IN /\ docs' = {IF d.coll = coll /\ d.id = id
                      THEN StatusUpdate(d, pending.status, today) ELSE d : d \in docs}
          /\ resp' = Response(pending.op, pending.caller, NoProfile,
                              IF Found(coll, id) = {} THEN HTTP_500_INTERNAL_SERVER_ERROR
                              ELSE HTTP_200_OK,
                              {d.id : d \in Found(coll, id)})
    /\ pending' = NoReq
    /\ UNCHANGED <<care_profiles, creator, nextProfileId, nextDocId, today, router,
                   subVars, userVars>>

\* ------------------------------------------------------------ the inputs
ProfileBodies == [user_id : Users, full_name : Names]
UpdateBodies ==
    [has_full_name : BOOLEAN, full_name : Names, has_user_id : BOOLEAN, user_id : Users]

MedDaily == Med(TRUE, 0, FALSE, 0, <<Schedule(0, "DAILY", {}, FALSE, 0)>>, TRUE, 1)
MedBodies == {MedDaily}

OptProfileIds == ProfileIds \cup {NoProfile}
MedicationBodies == {Body(cp, u, 0, 0, m, TRUE) : cp \in OptProfileIds, u \in Users, m \in MedBodies}
DatedBodies == {Body(cp, u, d, 0, NoMed, TRUE) : cp \in OptProfileIds, u \in Users, d \in DocDays}
PlainBodies == {Body(cp, u, 0, 0, NoMed, TRUE) : cp \in OptProfileIds, u \in Users}
VitalBodies == {Body(cp, u, 0, 0, NoMed, ok) : cp \in OptProfileIds, u \in Users, ok \in BOOLEAN}
\* a log is stamped with the current day
LogBodies == {Body(cp, NoUser, today, m, NoMed, TRUE) : cp \in ProfileIds, m \in DocIds}

NoSubscriptions ==
    /\ subscriptions = {}
    /\ nextSubId = 1
    /\ subReqs = [w \in Slots |-> IdleReq]

Init ==
    /\ NoSubscriptions
    /\ care_profiles = [p \in ProfileIds |-> NoDoc]
    /\ creator = [p \in ProfileIds |-> NoUser]
    /\ nextProfileId = 1
    /\ docs = {}
    /\ nextDocId = 1
    /\ pending = NoReq
    /\ today = 0
    /\ router \in Routers
    /\ resp = NoResp
    /\ NoUsers

Next ==
    \/ \E u \in Users, b \in {x \in ProfileBodies : x.full_name = "Ana"} : create_care_profile(u, b)
    \/ \E u \in Users, p \in ProfileIds : delete_care_profile(u, p)
    \/ \E u \in Users, b \in MedicationBodies : create_medication(u, b)
    \/ \E u \in Users, b \in DatedBodies : create_appointment(u, b)
    \/ \E u \in Users, b \in PlainBodies : create_health_record(u, b)
    \/ \E u \in Users, b \in DatedBodies : create_calendar_event(u, b)
    \/ \E u \in Users, b \in PlainBodies : create_reminder(u, b)
    \/ \E u \in Users, b \in VitalBodies : create_vital_sign(u, b)
    \/ \E u \in Users, b \in LogBodies : log_medication_taken(u, b)
    \/ CreateWrite
    \/ \E u \in Users, p \in ProfileIds, a \in {"none", "true", "false"} :
           get_care_profile_medications(u, p, a)
    \/ \E u \in Users, p \in ProfileIds : get_today_medications(u, p)
    \/ \E u \in Users, p \in ProfileIds, lo \in DocDays, hi \in DocDays :
           get_care_profile_medication_logs(u, p, lo, hi)
    \/ \E u \in Users, p \in ProfileIds, lo \in DocDays, hi \in DocDays :
           get_care_profile_appointments(u, p, lo, hi)
    \/ \E u \in Users, p \in ProfileIds : get_today_appointments(u, p)
    \/ \E u \in Users, p \in ProfileIds : get_upcoming_appointments(u, p)
    \/ \E u \in Users, p \in ProfileIds : get_care_profile_health_records(u, p)
    \/ \E u \in Users, p \in ProfileIds : get_care_profile_reminders(u, p)
    \/ \E u \in Users, p \in ProfileIds, lo \in DocDays, hi \in DocDays :
           get_events_by_date_range(u, p, lo, hi)

Spec == Init /\ [][Next]_vars

\* ------------------------------------- the care-profile router on its own
InitProfiles ==
    /\ NoSubscriptions
    /\ care_profiles = [p \in ProfileIds |-> NoDoc]
    /\ creator = [p \in ProfileIds |-> NoUser]
    /\ nextProfileId = 1
    /\ docs = {}
    /\ nextDocId = 1
    /\ pending = NoReq
    /\ today = 0
    /\ router = "care_profiles"
    /\ resp = NoResp
    /\ NoUsers

NextProfiles ==
    \/ \E u \in Users, b \in ProfileBodies : create_care_profile(u, b)
    \/ \E u \in Users, p \in ProfileIds : get_care_profile_by_id(u, p)
    \/ \E u \in Users : list_care_profiles_for_user(u)
    \/ \E u \in Users, p \in ProfileIds, b \in UpdateBodies : update_care_profile(u, p, b)
    \/ \E u \in Users, p \in ProfileIds : delete_care_profile(u, p)

SpecProfiles == InitProfiles /\ [][NextProfiles]_vars

\* ------------------------------------ get_today_medications on its own
\* Stored medications of care profile 1: each was accepted by
\* create_medication, whose body model admits every combination below.
ScheduleKinds ==
    {Schedule(1, "DAILY", {}, FALSE, 0),
     Schedule(0, "SPECIFIC_DAYS", {"Tuesday", "Thursday"}, FALSE, 0),
     Schedule(0, "SPECIFIC_DAYS", {}, FALSE, 0),
     Schedule(0, "INTERVAL", {}, TRUE, 2),
     Schedule(0, "INTERVAL", {}, TRUE, 0),
     Schedule(0, "INTERVAL", {}, TRUE, -1),
     Schedule(0, "INTERVAL", {}, FALSE, 0),
     Schedule(0, "AS_NEEDED", {}, FALSE, 0)}

ScheduleLists ==
    UNION {[1..n -> ScheduleKinds] : n \in 0..MaxSchedules}

StoredMeds ==
    {Med(a, st, e[1], e[2], sl, FALSE, 0) :
        a \in BOOLEAN, st \in {0, 1}, e \in {<<FALSE, 0>>, <<TRUE, 2>>}, sl \in ScheduleLists}

InitToday ==
    /\ NoSubscriptions
    /\ care_profiles = [p \in ProfileIds |->
                           IF p = 1 THEN [exists |-> TRUE, user_id |-> "u1", full_name |-> "Ana"]
                           ELSE NoDoc]
    /\ creator = [p \in ProfileIds |-> IF p = 1 THEN "u1" ELSE NoUser]
    /\ nextProfileId = 2
    /\ \E n \in 0..MaxDocs :
          /\ nextDocId = n + 1
          /\ \E f \in [1..n -> StoredMeds] :
                docs = {ChildDoc(i, "medications", Body(1, "u1", 0, 0, f[i], TRUE), "u1") : i \in 1..n}
    /\ pending = NoReq
    /\ today \in Days
    /\ router = "medications"
    /\ resp = NoResp
    /\ NoUsers

NextToday ==
    \/ \E u \in Users, p \in ProfileIds : get_today_medications(u, p)
    \/ Tick

SpecToday == InitToday /\ [][NextToday]_vars

\* -------------------------------------- the subscriptions router on its own
SubscriptionBodies ==
    {SubscriptionCreate(u, t, hf, get_default_features("premium")) :
        u \in Users, t \in SubscriptionTier, hf \in BOOLEAN}

InitSubs ==
    /\ NoSubscriptions
    /\ care_profiles = [p \in ProfileIds |-> NoDoc]
    /\ creator = [p \in ProfileIds |-> NoUser]
    /\ nextProfileId = 1
    /\ docs = {}
    /\ nextDocId = 1
    /\ pending = NoReq
    /\ today = 0
    /\ router = "subscriptions"
    /\ resp = NoResp
    /\ NoUsers

NextSubs ==
    \/ \E w \in Slots, u \in Users, b \in SubscriptionBodies : create_subscription(w, u, b)
    \/ \E w \in Slots, u \in Users : get_my_subscription(w, u)
    \/ \E w \in Slots : SubscriptionSet(w)
    \/ \E w \in Slots : SubscriptionRequery(w)

SpecSubs == InitSubs /\ [][NextSubs]_vars

\* ------------------------------- subscription updates on their own
\* Stored subscriptions before any update: what create_subscription and
\* get_my_subscription store (generated id, the body's tier and features).
StoredSubscriptions(id) ==
    {[SubscriptionInDB(id, SubscriptionCreate(u, t, TRUE, get_default_features(f)))
         EXCEPT !.is_active = a] :
        u \in Users, t \in SubscriptionTier, f \in SubscriptionTier, a \in BOOLEAN}

SubscriptionUpdateBodies ==
    {NoSubscriptionUpdate,
     SubscriptionUpdate(TRUE, "free", FALSE, get_default_features("free"), FALSE, FALSE, FALSE, FALSE),
     SubscriptionUpdate(TRUE, "premium", FALSE, get_default_features("free"), TRUE, FALSE, FALSE, FALSE)}

InitUpgrade ==
    /\ care_profiles = [p \in ProfileIds |-> NoDoc]
    /\ creator = [p \in ProfileIds |-> NoUser]
    /\ nextProfileId = 1
    /\ docs = {}
    /\ nextDocId = 1
    /\ pending = NoReq
    /\ today \in {0, MaxDay}
    /\ router = "subscriptions"
    /\ \E n \in 0..MaxStored :
          /\ nextSubId = n + 1
          /\ \E f \in [1..n -> UNION {StoredSubscriptions(i) : i \in 1..n}] :
                /\ \A i \in 1..n : f[i].id = i
                /\ subscriptions = {f[i] : i \in 1..n}
    /\ subReqs = [w \in Slots |-> IdleReq]
    /\ resp = NoResp
    /\ NoUsers

\* w ranges over the update requests in flight together.
NextUpgrade ==
    \/ \E w \in 1..MaxUpdaters, u \in Users, b \in SubscriptionUpdateBodies :
           update_my_subscription(w, u, b)
    \/ \E w \in 1..MaxUpdaters, u \in Users : upgrade_to_premium(w, u)
    \/ \E w \in 1..MaxUpdaters : SubscriptionUpdateWrite(w)
    \/ \E w \in 1..MaxUpdaters : SubscriptionRequery(w)

SpecUpgrade == InitUpgrade /\ [][NextUpgrade]_vars

\* ------------------------------------------- medication logs on their own
\* Medication documents stored before any log.  inventory_count is
\* Optional[int]: create_medication and update_medication store whatever
\* integer the body carries, or leave the field unset.
StoredInventories ==
    {Med(TRUE, 0, FALSE, 0, <<>>, FALSE, 0)} \cup
    {Med(TRUE, 0, FALSE, 0, <<>>, TRUE, n) : n \in {-1, 0, 1, 2}}

\* The id of the medication document that may be stored (a uuid4 string),
\* apart from the ids the log requests generate.
StoredMedicationId == MaxDocs + 1

\* MedicationLogCreate bodies: care_profile_id, medication_id, timestamp.
\* medication_id names the stored medication or a medication never stored.
StoredLogBodies ==
    {Body(cp, NoUser, today, m, NoMed, TRUE) :
        cp \in ProfileIds, m \in {StoredMedicationId, StoredMedicationId + 1}}

InitLog ==
    /\ NoSubscriptions
    /\ \E owner \in Users :
          /\ care_profiles = [p \in ProfileIds |->
                                 IF p = 1 THEN [exists |-> TRUE, user_id |-> owner, full_name |-> "Ana"]
                                 ELSE NoDoc]
          /\ creator = [p \in ProfileIds |-> IF p = 1 THEN owner ELSE NoUser]
    /\ nextProfileId = 2
    /\ \/ docs = {}
       \/ \E m \in StoredInventories, u \in Users :
              docs = {ChildDoc(StoredMedicationId, "medications", Body(1, u, 0, 0, m, TRUE), u)}
    /\ nextDocId = 1
    /\ pending = NoReq
    /\ today \in {0, MaxDay}
    /\ router = "medications"
    /\ resp = NoResp
    /\ NoUsers

NextLog ==
    \/ \E u \in Users, b \in StoredLogBodies : log_medication_taken(u, b)
    \/ CreateWrite

SpecLog == InitLog /\ [][NextLog]_vars

\* --------------------------------------------- the users router on its own
\* Bodies of POST /users/register: the required fields, with or without an
\* optional one, with or without keys UserCreate does not declare.
RegisterBodies ==
    {extra @@ phone @@ ("email" :> e) @@ ("full_name" :> "Ana") @@ ("password" :> "secret") :
        e \in {"ana@example.com", "ben@example.com"},
        phone \in {<<>>, "phone_number" :> "555"},
        extra \in {<<>>, ("is_caregiver" :> "True") @@ ("is_verified" :> "True")}}

\* Bodies of PUT /users/me, with or without keys UserUpdate does not declare.
UserUpdateBodies ==
    {<<>>,
     "full_name" :> "Ben",
     "is_caregiver" :> "True",
     ("password" :> "secret") @@ ("address" :> "Cebu"),
     ("password" :> "other") @@ ("id" :> "u2")}

InitUsers ==
    /\ NoSubscriptions
    /\ care_profiles = [p \in ProfileIds |-> NoDoc]
    /\ creator = [p \in ProfileIds |-> NoUser]
    /\ nextProfileId = 1
    /\ docs = {}
    /\ nextDocId = 1
    /\ pending = NoReq
    /\ today = 0
    /\ router = "users"
    /\ resp = NoResp
    /\ NoUsers

NextUsers ==
    \/ \E b \in RegisterBodies : register_user(b)
    \/ \E t \in IdTokens : get_current_user(t)
    \/ \E t \in IdTokens, b \in UserUpdateBodies : update_user(t, b)
    \/ \E t \in IdTokens : delete_user(t)

SpecUsers == InitUsers /\ [][NextUsers]_vars

\* ------------------------------------- the status endpoints on their own
\* Stored appointments and calendar events, in every status, never updated
\* since the day they were created (day 0).
StoredAppointments(id) ==
    {StatusDoc(id, "appointments", cp, u, st, 0) :
        cp \in OptProfileIds, u \in Users, st \in AppointmentStatus}
StoredEvents(id) ==
    {StatusDoc(id, "calendar_events", cp, u, st, 0) :
        cp \in ProfileIds, u \in Users, st \in EventStatus}

InitStatus ==
    /\ NoSubscriptions
    /\ \E owner \in Users, kept \in BOOLEAN :
          /\ care_profiles = [p \in ProfileIds |->
                                 IF p = 1 /\ kept
                                 THEN [exists |-> TRUE, user_id |-> owner, full_name |-> "Ana"]
                                 ELSE NoDoc]
          /\ creator = [p \in ProfileIds |-> IF p = 1 THEN owner ELSE NoUser]
    /\ nextProfileId = 2
    /\ \E n \in 0..MaxDocs :
          /\ nextDocId = n + 1
          /\ \E f \in [1..n -> UNION {StoredAppointments(i) \cup StoredEvents(i) : i \in 1..n}] :
                /\ \A i \in 1..n : f[i].id = i
                /\ docs = {f[i] : i \in 1..n}
    /\ pending = NoReq
    /\ today \in {1, MaxDay}
    /\ router \in {"calendar", "appointments"}
    /\ resp = NoResp
    /\ NoUsers

NextStatus ==
    \/ \E u \in Users, id \in DocIds, st \in EventStatus : mark_event_status(u, id, st)
    \/ \E u \in Users, id \in DocIds : mark_appointment_complete(u, id)
    \/ MarkWrite

SpecStatus == InitStatus /\ [][NextStatus]_vars

\* ================================================================ claims
ListOps == {"get_care_profile_medications", "get_today_medications",
            "get_care_profile_medication_logs", "get_care_profile_appointments",
            "get_today_appointments", "get_upcoming_appointments",
            "get_care_profile_health_records", "get_care_profile_reminders",
            "get_events_by_date_range"}

Owns(u, p) == care_profiles[p].exists /\ care_profiles[p].user_id = u

\* C1: authorize_care_profile_access is a single owner-equality check.  A
\* handler that calls it first answers 404 when the named profile does not
\* exist, 403 when it exists and its user_id is not the caller's id, and gets
\* past it exactly when the profile exists and its user_id is the caller's id;
\* it changes neither the care profiles nor any child collection.
C1_AuthorizeIsOwnerEquality ==
    [][resp'.op \in ListOps =>
          /\ (resp'.status = HTTP_404_NOT_FOUND <=> ~care_profiles[resp'.p].exists)
          /\ (resp'.status = HTTP_403_FORBIDDEN <=>
                 /\ care_profiles[resp'.p].exists
                 /\ care_profiles[resp'.p].user_id # resp'.caller)
          /\ (resp'.status \notin {HTTP_404_NOT_FOUND, HTTP_403_FORBIDDEN} <=>
                 Owns(resp'.caller, resp'.p))
          /\ UNCHANGED <<care_profiles, docs>>]_vars

C1_Witness ==
    /\ resp.op \in ListOps
    /\ resp.status = HTTP_403_FORBIDDEN
    /\ care_profiles[resp.p].exists
    /\ care_profiles[resp.p].user_id # resp.caller

\* C2: a list-by-care-profile endpoint returns records only to the owner of
\* the profile: a caller who did not create the profile gets 403 or 404 and
\* an empty body, and every record in a body belongs to the named profile,
\* which the caller created.
C2_ListOnlyForOwner ==
    resp.op \in ListOps =>
        /\ (creator[resp.p] # resp.caller =>
               /\ resp.status \in {HTTP_403_FORBIDDEN, HTTP_404_NOT_FOUND}
               /\ resp.body = {}
               /\ resp.items = <<>>)
        /\ (resp.status = HTTP_403_FORBIDDEN => care_profiles[resp.p].exists)
        /\ (resp.status = HTTP_404_NOT_FOUND => ~care_profiles[resp.p].exists)
        /\ \A id \in resp.body :
               /\ creator[resp.p] = resp.caller
               /\ \E d \in docs : d.id = id /\ d.care_profile_id = resp.p

C2_Witness ==
    /\ resp.op \in ListOps
    /\ resp.status = HTTP_403_FORBIDDEN
    /\ creator[resp.p] # resp.caller
    /\ \E d \in docs : d.care_profile_id = resp.p /\ RouterOf(resp.op) = router

\* C3: a create request that names care profile p goes on to its write only
\* if, at its check, p exists and p.user_id is the caller's id; otherwise it
\* answers 404 (p missing) or 403 (p of another user) and nothing is written;
\* a document is written only by a request that passed its check.
C3_CreateOnlyForOwner ==
    [][/\ (/\ ~pending.active
           /\ resp'.op \in CreateOps
           /\ resp'.p # NoProfile) =>
              /\ (~care_profiles[resp'.p].exists => resp'.status = HTTP_404_NOT_FOUND)
              /\ ((care_profiles[resp'.p].exists /\ care_profiles[resp'.p].user_id # resp'.caller)
                     => resp'.status = HTTP_403_FORBIDDEN)
              /\ UNCHANGED <<docs, care_profiles, nextDocId>>
       /\ (/\ ~pending.active
           /\ pending'.active
           /\ pending'.body.care_profile_id # NoProfile) =>
              Owns(pending'.caller, pending'.body.care_profile_id)
       /\ docs' # docs =>
              /\ pending.active
              /\ (pending.body.care_profile_id # NoProfile =>
                     creator[pending.body.care_profile_id] = pending.caller)]_vars

C3_Witness ==
    /\ resp.op \in CreateOps
    /\ resp.status = HTTP_201_CREATED
    /\ resp.p # NoProfile
    /\ creator[resp.p] = resp.caller
    /\ \E d \in docs : d.id \in resp.body /\ d.care_profile_id = resp.p

\* C4: the ownership rule is checked per request, not transactionally:
\* delete_care_profile removes the profile document only (no child document
\* and no request in flight is touched), and a create request that passed
\* its check writes its document whether or not the profile still exists.
\* So a stored child naming a missing care profile is reachable.
C4_NotTransactional ==
    [][/\ (resp'.op = "delete_care_profile" /\ resp'.status = HTTP_204_NO_CONTENT) =>
              /\ docs' = docs
              /\ pending' = pending
              /\ ~care_profiles'[resp'.p].exists
       /\ (pending.active /\ ~pending'.active) =>
              \E d \in docs' \ docs :
                  /\ d.id = nextDocId
                  /\ d.care_profile_id = pending.body.care_profile_id]_vars

\* A child written after its care profile was deleted: the delete ran
\* between the create request's check and its write.
C4_Witness ==
    /\ resp.op \in CreateOps
    /\ resp.p # NoProfile
    /\ ~care_profiles[resp.p].exists
    /\ \E d \in docs : d.id = nextDocId - 1 /\ d.care_profile_id = resp.p

ProfileOps == {"get_care_profile_by_id", "update_care_profile", "delete_care_profile"}

\* C5: a stored care profile's user_id is the id of the caller whose request
\* created it, whatever user_id that request's body carried, and no later
\* request (CareProfileUpdate has no user_id field) changes it.
C5_OwnerIsCreator ==
    \A p \in ProfileIds :
        care_profiles[p].exists =>
            /\ creator[p] \in Users
            /\ care_profiles[p].user_id = creator[p]

\* An update that carried another user's id succeeded on a profile whose
\* create request had carried another user's id too.
C5_Witness ==
    /\ resp.op = "update_care_profile"
    /\ resp.status = HTTP_200_OK
    /\ resp.sent_user_id \in Users \ {resp.caller}
    /\ care_profiles[resp.p].user_id = resp.caller

\* C6: get_care_profile_by_id, update_care_profile and delete_care_profile
\* answer 404 when the profile does not exist and 403 when it exists with
\* another user's id; in both cases care_profiles is unchanged.  A profile is
\* changed or deleted only by a request of its owner, and only that profile.
C6_OnlyOwnerReadsUpdatesDeletes ==
    [][resp'.op \in ProfileOps =>
          /\ (~care_profiles[resp'.p].exists => resp'.status = HTTP_404_NOT_FOUND)
          /\ ((care_profiles[resp'.p].exists /\ care_profiles[resp'.p].user_id # resp'.caller)
                 => resp'.status = HTTP_403_FORBIDDEN)
          /\ (resp'.status \in {HTTP_404_NOT_FOUND, HTTP_403_FORBIDDEN}
                 => care_profiles' = care_profiles)
          /\ (resp'.status \in {HTTP_200_OK, HTTP_204_NO_CONTENT}
                 => Owns(resp'.caller, resp'.p))
          /\ (care_profiles' # care_profiles =>
                 /\ Owns(resp'.caller, resp'.p)
                 /\ resp'.op \in {"update_care_profile", "delete_care_profile"}
                 /\ \A q \in ProfileIds \ {resp'.p} : care_profiles'[q] = care_profiles[q])]_vars

C6_Witness ==
    /\ resp.op \in {"update_care_profile", "delete_care_profile"}
    /\ resp.status = HTTP_403_FORBIDDEN
    /\ care_profiles[resp.p].exists
    /\ care_profiles[resp.p].user_id # resp.caller

\* A schedule is due today, by its frequency type alone: DAILY always;
\* SPECIFIC_DAYS when today's weekday name is in days_of_week; INTERVAL when
\* interval_days is set and positive and the whole days since start_date are
\* non-negative and divisible by it; AS_NEEDED never.
ScheduleDue(s, med_obj, today_date) ==
    CASE s.frequency_type = "DAILY" -> TRUE
      [] s.frequency_type = "SPECIFIC_DAYS" -> today_day_str(today_date) \in s.days_of_week
      [] s.frequency_type = "INTERVAL" ->
            /\ s.has_interval
            /\ s.interval_days > 0
            /\ today_date - med_obj.start_date >= 0
            /\ (today_date - med_obj.start_date) % s.interval_days = 0
      [] OTHER -> FALSE

DueSchedules(med_obj, today_date) ==
    SelectSeq(med_obj.schedules, LAMBDA s : ScheduleDue(s, med_obj, today_date))

\* The active medications of care profile p whose date range contains today.
CurrentMeds(p) ==
    {d \in docs : /\ d.coll = "medications"
                  /\ d.care_profile_id = p
                  /\ d.med.is_active
                  /\ d.med.start_date <= today
                  /\ (d.med.has_end => d.med.end_date >= today)}

\* C7: for its owner, get_today_medications returns exactly the current
\* medications of the profile that have a schedule due today, each carrying
\* exactly its due schedules, and leaves the stored documents unchanged.
C7_TodayListIsDueMedications ==
    [][(resp'.op = "get_today_medications" /\ Owns(resp'.caller, resp'.p)) =>
          /\ resp'.status = HTTP_200_OK
          /\ {resp'.items[i].id : i \in 1..Len(resp'.items)} =
                 {d.id : d \in {x \in CurrentMeds(resp'.p) : DueSchedules(x.med, today) # <<>>}}
          /\ \A i \in 1..Len(resp'.items) :
                 \A d \in CurrentMeds(resp'.p) :
                     d.id = resp'.items[i].id =>
                         resp'.items[i].schedules = DueSchedules(d.med, today)
          /\ docs' = docs]_vars

\* C8: a schedule of a current medication is returned exactly when it is due
\* by its frequency type (see ScheduleDue), and the computation raises no
\* error.
C8_DueByFrequencyType ==
    (resp.op = "get_today_medications" /\ Owns(resp.caller, resp.p)) =>
        /\ resp.status # HTTP_500_INTERNAL_SERVER_ERROR
        /\ \A d \in CurrentMeds(resp.p) :
               \A k \in 1..Len(d.med.schedules) :
                   ScheduleDue(d.med.schedules[k], d.med, today) <=>
                       \E i \in 1..Len(resp.items) :
                           /\ resp.items[i].id = d.id
                           /\ \E j \in 1..Len(resp.items[i].schedules) :
                                  resp.items[i].schedules[j] = d.med.schedules[k]

\* The request that the step answers, if the step is the query after a write.
Answered(w) == subReqs[w].pc = "requery" /\ subReqs'[w].pc = "idle"

\* C9: get_my_subscription never answers 404.  When the caller has a
\* subscription, one of the caller's stored subscriptions is returned and the
\* collection is unchanged; when the caller has none, the request creates one
\* free subscription for the caller with the default free features, and the
\* subscription it returns is the one it created.
C9_GetMySubscriptionCreatesFree ==
    [][/\ resp'.op = "get_my_subscription" => resp'.status # HTTP_404_NOT_FOUND
       /\ \A w \in Slots :
             /\ (resp'.op = "get_my_subscription" /\ subReqs[w].pc = "idle"
                    /\ subReqs'[w].pc = "idle" /\ resp'.status = HTTP_200_OK) =>
                   /\ subscriptions' = subscriptions
                   /\ resp'.items # <<>>
                   /\ resp'.items[1] \in SubscriptionsOf(resp'.caller)
             /\ (subReqs[w].op = "get_my_subscription" /\ subReqs[w].pc = "write"
                    /\ subReqs'[w].pc = "requery") =>
                   \E sub \in subscriptions' \ subscriptions :
                       /\ subscriptions' = subscriptions \cup {sub}
                       /\ sub.user_id = subReqs[w].caller
                       /\ sub.tier = "free"
                       /\ sub.features = get_default_features("free")
             /\ (subReqs[w].op = "get_my_subscription" /\ Answered(w)) =>
                   /\ resp'.status = HTTP_200_OK
                   /\ resp'.items # <<>>
                   /\ resp'.items[1].id = subReqs[w].written
                   /\ resp'.items[1].tier = "free"
                   /\ resp'.items[1].features = get_default_features("free")]_vars

\* C10: create_subscription answers 403 when the body's user_id is not the
\* caller's id and 400 when the caller already has a subscription, leaving
\* the collection unchanged; a subscription it writes has the caller's
\* user_id, and it writes only when the caller has no subscription.
C10_CreateSubscriptionOnlyWhenNone ==
    [][/\ (resp'.op = "create_subscription"
              /\ resp'.status \in {HTTP_403_FORBIDDEN, HTTP_400_BAD_REQUEST}) =>
             /\ subscriptions' = subscriptions
             /\ (resp'.status = HTTP_400_BAD_REQUEST => SubscriptionsOf(resp'.caller) # {})
       /\ \A w \in Slots :
             (subReqs[w].op = "create_subscription" /\ subReqs[w].pc = "write"
                 /\ subReqs'[w].pc = "requery") =>
                /\ SubscriptionsOf(subReqs[w].caller) = {}
                /\ \A sub \in subscriptions' \ subscriptions :
                       sub.user_id = subReqs[w].caller]_vars

\* The subscription document with the given id, before and after the step.
SubById(subs, id) == CHOOSE sub \in subs : sub.id = id

\* The step is the store update of an upgrade_to_premium request in slot w.
UpgradeWrites(w) ==
    /\ subReqs[w].op = "upgrade_to_premium"
    /\ subReqs[w].pc = "update"
    /\ subReqs'[w].pc = "requery"

\* The step is an upgrade_to_premium request in slot w reading its subscription.
UpgradeReads(w) ==
    /\ subReqs[w].pc = "idle"
    /\ subReqs'[w].pc = "update"
    /\ subReqs'[w].op = "upgrade_to_premium"

\* C11 as claimed: whatever the prior state of the caller's subscription,
\* the subscription that upgrade_to_premium updates ends with tier premium,
\* is_active true, auto_renew true, end_date = request date + 30 days and the
\* default premium features.
C11_UpgradeFromAnyState ==
    [][\A w \in Slots :
          /\ UpgradeReads(w) =>
                subReqs'[w].update_data.end_date = today + PremiumDays
          /\ UpgradeWrites(w) =>
                LET after == SubById(subscriptions', subReqs[w].target)
                IN /\ after.tier = "premium"
                   /\ after.is_active
                   /\ after.auto_renew
                   /\ after.has_end_date
                   /\ after.end_date = subReqs[w].update_data.end_date
                   /\ after.features = get_default_features("premium")]_vars

\* C11, amended: the subscription that upgrade_to_premium updates ends with
\* tier premium, is_active true, auto_renew true and end_date = request date
\* + 30 days.  Its features become the default premium set when its tier was
\* not premium when the request read it; a subscription that was already
\* premium keeps the features it has.  No other subscription changes.
C11_UpgradeKeepsPremiumFeatures ==
    [][\A w \in Slots :
          /\ UpgradeReads(w) =>
                /\ subReqs'[w].update_data.end_date = today + PremiumDays
                /\ subReqs'[w].update_data.has_features <=>
                       SubById(subscriptions, subReqs'[w].target).tier # "premium"
                /\ SubById(subscriptions, subReqs'[w].target).user_id = subReqs'[w].caller
          /\ UpgradeWrites(w) =>
                LET before == SubById(subscriptions, subReqs[w].target)
                    after == SubById(subscriptions', subReqs[w].target)
                IN /\ after.tier = "premium"
                   /\ after.is_active
                   /\ after.auto_renew
                   /\ after.has_end_date
                   /\ after.end_date = subReqs[w].update_data.end_date
                   /\ after.features = IF subReqs[w].update_data.has_features
                                       THEN get_default_features("premium")
                                       ELSE before.features
                   /\ after.id = before.id /\ after.user_id = before.user_id
                   /\ \A sub \in subscriptions :
                          sub.id # subReqs[w].target => sub \in subscriptions']_vars

\* An upgrade has just been written to a subscription that was premium with
\* other features than the premium defaults, and it still has those features.
C11_Witness ==
    \E w \in Slots :
        /\ subReqs[w].op = "upgrade_to_premium"
        /\ subReqs[w].pc = "requery"
        /\ ~subReqs[w].update_data.has_features
        /\ \E sub \in subscriptions :
               /\ sub.id = subReqs[w].target
               /\ sub.tier = "premium"
               /\ sub.auto_renew
               /\ sub.end_date = today + PremiumDays
               /\ sub.features # get_default_features("premium")

\* C16: at most one subscription document exists per user in every reachable
\* state, whatever the interleaving of create_subscription and
\* get_my_subscription requests.
C16_AtMostOneSubscriptionPerUser ==
    \A u \in Users : Cardinality(SubscriptionsOf(u)) <= 1

\* C12: log_medication_taken stores one medication log and updates the
\* inventory.  When the request gets past authorization its write step
\* answers 201 with the new log, adds exactly that log to the store, and
\* touches the medications as follows: the medication the log names, when it
\* exists with inventory_count n > 0, gets n - 1; when n <= 0, the count is
\* unset, or no such medication exists, no medication document changes.  A
\* non-negative inventory_count therefore stays non-negative.
LogWritten ==
    /\ pending.active
    /\ pending.op = "log_medication_taken"
    /\ ~pending'.active

Medications(ds) == {d \in ds : d.coll = "medications"}

C12_LogDecrementsPositiveInventory ==
    [][LogWritten =>
         LET medication_id == pending.body.ref
             new_log == {d \in docs' : d.coll = "medication_logs" /\ d.id = nextDocId}
         IN /\ resp'.op = "log_medication_taken"
            /\ resp'.status = HTTP_201_CREATED
            /\ resp'.body = {nextDocId}
            /\ Cardinality(new_log) = 1
            /\ \A l \in new_log :
                   /\ l.ref = medication_id
                   /\ l.care_profile_id = pending.body.care_profile_id
            /\ docs' \ Medications(docs') = (docs \ Medications(docs)) \cup new_log
            /\ {d.id : d \in Medications(docs')} = {d.id : d \in Medications(docs)}
            /\ \A d \in Medications(docs) :
                   LET after == CHOOSE e \in Medications(docs') : e.id = d.id
                   IN /\ (d.id = medication_id /\ d.med.has_inventory /\ d.med.inventory_count > 0)
                         => after = [d EXCEPT !.med.inventory_count = d.med.inventory_count - 1]
                      /\ ~(d.id = medication_id /\ d.med.has_inventory /\ d.med.inventory_count > 0)
                         => after = d
                      /\ (d.med.has_inventory /\ d.med.inventory_count >= 0)
                         => after.med.inventory_count >= 0]_vars

\* A log naming a stored medication was written and that medication's count
\* is 1: it was 2 before the log (a count of 1 would have become 0).
C12_Witness ==
    /\ resp.op = "log_medication_taken"
    /\ resp.status = HTTP_201_CREATED
    /\ \E l \in docs, m \in docs :
          /\ l.coll = "medication_logs"
          /\ m.coll = "medications"
          /\ l.ref = m.id
          /\ m.med.has_inventory
          /\ m.med.inventory_count = 1

\* C13: get_authenticated_user answers 401 when the token header is missing,
\* 401 when the token is invalid, expired or revoked, 404 when the token is
\* valid but the users collection has no document for its uid, and otherwise
\* returns the stored user whose document id is the token's uid; a handler
\* that depends on it runs only for a returned user.
DependentOps == {"get_current_user", "update_user", "delete_user"}

C13_AuthenticatedUserOutcomes ==
    [][resp'.op \in DependentOps =>
         LET token == id_token'
         IN /\ (token.kind = "missing") => (resp'.status = HTTP_401_UNAUTHORIZED)
            /\ (token.kind \in TokenKinds \ {"valid"}) => (resp'.status = HTTP_401_UNAUTHORIZED)
            /\ (token.kind = "valid" /\ ~UserDocExists(token.uid))
               => (resp'.status = HTTP_404_NOT_FOUND)
            /\ (token.kind = "valid" /\ UserDocExists(token.uid))
               => (resp'.caller = token.uid /\ resp'.status \in {HTTP_200_OK, HTTP_204_NO_CONTENT})
            /\ (resp'.caller # NoUser)
               => (token.kind = "valid" /\ UserDocExists(token.uid))]_vars

\* C14: register_user with an email that is already registered in the
\* identity provider answers 400 and creates neither an identity-provider
\* account nor a users document.
C14_RegisteredEmailIsRefusedWith400 ==
    [][\A raw \in RegisterBodies :
          (register_user(raw) /\ \E a \in accounts : a.email = raw["email"])
          => /\ resp'.status = HTTP_400_BAD_REQUEST
             /\ accounts' = accounts
             /\ users' = users]_vars

\* C15: no stored user document ever has a password field, whatever
\* register_user and update_user requests were made, and every document a
\* register_user request stores has is_caregiver false and is_verified false.
C15_NoPasswordStored ==
    [][/\ \A d \in users \cup users' : "password" \notin DOMAIN d.data
       /\ (resp'.op = "register_user" /\ resp'.status = HTTP_201_CREATED)
          => /\ Cardinality(users' \ users) = 1
             /\ \A d \in users' \ users :
                   /\ d.data["is_caregiver"] = "False"
                   /\ d.data["is_verified"] = "False"]_vars

\* A user registered and then sent PUT /users/me with a body carrying a
\* password key next to an address: the address is stored, the password is not.
C15_Witness ==
    /\ resp.op = "update_user"
    /\ resp.status = HTTP_200_OK
    /\ \E d \in users :
          /\ "address" \in DOMAIN d.data
          /\ d.data["address"] = "Cebu"
          /\ "password" \notin DOMAIN d.data

\* C17: the user_id stored on a medication created by create_medication is
\* the authenticated caller's id, whatever user_id the request body carries.
C17_MedicationUserIdIsCaller ==
    [][(pending.active /\ pending.op = "create_medication" /\ ~pending'.active)
       => \A d \in docs' \ docs : d.coll = "medications" => d.user_id = pending.caller]_vars

\* C18: there is no status lifecycle.  For a caller authorized for an
\* existing record, mark_event_status gets to its update for every pair of
\* current and target EventStatus, and mark_appointment_complete for every
\* current AppointmentStatus (cancelled and completed included); the update
\* answers 200, sets the record's status to the target ("completed" for an
\* appointment) and its updated_at, and changes no other field and no other
\* record.
MayMark(u, d) ==
    IF d.coll = "appointments" /\ d.care_profile_id = NoProfile THEN d.user_id = u
    ELSE Owns(u, d.care_profile_id)

C18_NoStatusLifecycle ==
    [][/\ \A u \in Users, id \in DocIds, st \in EventStatus :
             (/\ mark_event_status(u, id, st)
              /\ \E d \in docs : d.coll = "calendar_events" /\ d.id = id /\ MayMark(u, d))
             => (pending'.active /\ pending'.status = st /\ pending'.body.ref = id)
       /\ \A u \in Users, id \in DocIds :
             (/\ mark_appointment_complete(u, id)
              /\ \E d \in docs : d.coll = "appointments" /\ d.id = id /\ MayMark(u, d))
             => (pending'.active /\ pending'.status = "completed" /\ pending'.body.ref = id)
       /\ (pending.active /\ pending.op \in MarkOps /\ ~pending'.active)
          => /\ resp'.op = pending.op
             /\ resp'.status = HTTP_200_OK
             /\ resp'.body = {pending.body.ref}
             /\ \E d \in docs :
                   /\ d.coll = MarkedCollection(pending.op)
                   /\ d.id = pending.body.ref
                   /\ docs' = (docs \ {d}) \cup
                                 {[d EXCEPT !.status = pending.status, !.updated_at = today]}]_vars

\* A status request was answered 200 on a day after the record's creation:
\* an event was marked pending again, or an appointment was completed.
C18_Witness ==
    /\ resp.op \in MarkOps
    /\ resp.status = HTTP_200_OK
    /\ \E d \in docs :
          /\ d.id \in resp.body
          /\ d.updated_at = today
          /\ \/ d.coll = "calendar_events" /\ d.status = "pending"
             \/ d.coll = "appointments" /\ d.status = "completed"

====
